---------------------------- MODULE Spec2Model ----------------------------
(***************************************************************************)
(* SimpleFS: an in-memory tree of directories and files driven by a        *)
(* line-oriented command loop (src/src/main.c) over the namespace engine   *)
(* (src/src/simplefs.c).                                                   *)
(*                                                                         *)
(* C strings are sequences of one-character strings.  Node pointers are    *)
(* heap cell numbers, NULL is 0.  The heap is a function from the cells    *)
(* that are allocated to node records; free() removes a cell from its      *)
(* domain.                                                                 *)
(***************************************************************************)
EXTENDS Integers, Sequences, FiniteSets, TLC

VARIABLES heap, line, out, pc, prev, step

vars == <<heap, line, out, pc, prev, step>>

(***************************************************************************)
(* Bounds of the model.                                                    *)
(***************************************************************************)
\* Number of nodes besides the root the input lets the tree grow to.
MaxHeap == 2

(***************************************************************************)
(* Program constants.  simplefs.h is not among the sources: the three      *)
(* creation limits are scaled to values the model can reach.               *)
(***************************************************************************)
NULL == 0
MAX_NODES == 2
MAX_NAMELENGHT == 1
MAX_DEPTH == 3
Dir == "Dir"
File == "File"

\* A null char pointer.  No C string holds a NUL, so this is no string.
NULLSTR == <<"NUL">>

\* What a call yields when the process is killed by a fault inside it: the
\* call does not return, and the process prints nothing more.
SIGSEGV == <<"SIGSEGV">>

\* The same for a call whose result is a record or a heap.
Killed == [signal |-> SIGSEGV]
NUL == "NUL"

(***************************************************************************)
(* Characters and string helpers (libc).                                   *)
(***************************************************************************)
\* The printable characters in the order of their byte values: 32 to 95,
\* and 97 to 126.  (Byte 96, the grave accent, cannot be written in a string
\* here; no line of the model holds it.)
PrintableLow ==
    <<" ", "!", "\"", "#", "$", "%", "&", "'",
      "(", ")", "*", "+", ",", "-", ".", "/",
      "0", "1", "2", "3", "4", "5", "6", "7",
      "8", "9", ":", ";", "<", "=", ">", "?",
      "@", "A", "B", "C", "D", "E", "F", "G",
      "H", "I", "J", "K", "L", "M", "N", "O",
      "P", "Q", "R", "S", "T", "U", "V", "W",
      "X", "Y", "Z", "[", "\\", "]", "^", "_">>

PrintableHigh ==
    <<"a", "b", "c", "d", "e", "f", "g", "h",
      "i", "j", "k", "l", "m", "n", "o", "p",
      "q", "r", "s", "t", "u", "v", "w", "x",
      "y", "z", "{", "|", "}", "~">>

\* The byte value of every character a line can hold: the control
\* characters tab, newline, form feed and carriage return, and the printable
\* characters.
AsciiCode ==
    [c \in {PrintableLow[i] : i \in DOMAIN PrintableLow} |->
        31 + (CHOOSE i \in DOMAIN PrintableLow : PrintableLow[i] = c)]
    @@ [c \in {PrintableHigh[i] : i \in DOMAIN PrintableHigh} |->
        96 + (CHOOSE i \in DOMAIN PrintableHigh : PrintableHigh[i] = c)]
    @@ ("\t" :> 9) @@ ("\n" :> 10) @@ ("\f" :> 12) @@ ("\r" :> 13)

Ascii(c) == AsciiCode[c]

strlen(s) == Len(s)

\* strcmp(a, b): negative, zero or positive (byte-wise comparison).
RECURSIVE strcmp(_, _)
strcmp(a, b) ==
    IF a = <<>> /\ b = <<>> THEN 0
    ELSE IF a = <<>> THEN 0 - 1
    ELSE IF b = <<>> THEN 1
    ELSE IF Head(a) = Head(b) THEN strcmp(Tail(a), Tail(b))
    ELSE IF Ascii(Head(a)) < Ascii(Head(b)) THEN 0 - 1 ELSE 1

my_strdup(s) == s

\* The delimiter sets handed to strtok.
DelimCmd == {" ", "\n", "\r"}
DelimFirst == {" ", "/", "\n", "\r"}
DelimNext == {"/", "\n", "\r"}
DelimContent == {"\"", "\n", "\r"}

\* The character at position i of a buffer; past its end is the terminator.
CharAt(buf, i) == IF i >= 1 /\ i <= Len(buf) THEN buf[i] ELSE NUL

RECURSIVE SkipDelims(_, _, _)
SkipDelims(buf, i, delims) ==
    IF CharAt(buf, i) \in delims THEN SkipDelims(buf, i + 1, delims) ELSE i

RECURSIVE ScanToken(_, _, _)
ScanToken(buf, i, delims) ==
    IF CharAt(buf, i) # NUL /\ CharAt(buf, i) \notin delims
    THEN ScanToken(buf, i + 1, delims) ELSE i

(***************************************************************************)
(* strtok(str, delims) on the tokenizer state tk = [buf, save]: buf is the *)
(* line buffer (strtok writes NULs into it), save the saved position.      *)
(* str is a position in buf, or NULL to continue from save.  The result is *)
(* the token (tok: its position or NULL; str: its text) and the new state. *)
(***************************************************************************)
strtok(tk, str, delims) ==
    LET from == IF str = NULL THEN tk.save ELSE str
        s == SkipDelims(tk.buf, from, delims)
        e == ScanToken(tk.buf, s, delims)
    IN  IF CharAt(tk.buf, s) = NUL
        THEN [tok |-> NULL, str |-> NULLSTR, buf |-> tk.buf, save |-> s]
        ELSE IF CharAt(tk.buf, e) = NUL
        THEN [tok |-> s, str |-> SubSeq(tk.buf, s, e - 1),
              buf |-> tk.buf, save |-> e]
        ELSE [tok |-> s, str |-> SubSeq(tk.buf, s, e - 1),
              buf |-> [tk.buf EXCEPT ![e] = NUL], save |-> e + 1]

(***************************************************************************)
(* The per-directory hashtable: a function from keys to node pointers.     *)
(* Its implementation is not among the sources; get, set, remove, size and *)
(* iterate follow the specification's DirectoryIndex.  The iteration order *)
(* is the table's own business: ord picks one of the orders modelled.      *)
(***************************************************************************)
Orders == {"asc", "desc"}

hashtable_create == [k \in {} |-> NULL]

hashtable_get(h, key) == IF key \in DOMAIN h THEN h[key] ELSE NULL

hashtable_set(h, key, value) ==
    [k \in (DOMAIN h) \cup {key} |-> IF k = key THEN value ELSE h[k]]

hashtable_remove(h, key) == [k \in (DOMAIN h) \ {key} |-> h[k]]

hashtable_get_size(h) == Cardinality(DOMAIN h)

\* The keys of h that come before key in the iteration order ord.
KeysBefore(h, key, ord) ==
    {k \in DOMAIN h : IF ord = "asc" THEN strcmp(k, key) < 0
                                     ELSE strcmp(k, key) > 0}

\* hashtable_iterate(h, &state): the entry at cursor position state, and the
\* advanced cursor; NULL at the end of the table.
hashtable_iterate(h, state, ord) ==
    IF state >= Cardinality(DOMAIN h)
    THEN [value |-> NULL, state |-> state]
    ELSE LET key == CHOOSE k \in DOMAIN h :
                        Cardinality(KeysBefore(h, k, ord)) = state
         IN  [value |-> h[key], state |-> state + 1]


(***************************************************************************)
(* Nodes (node_t) and the heap.  A node is                                 *)
(*   [name, depth, parent, type, payload]                                  *)
(* and payload, the union of the source, holds either [content |-> s] or   *)
(* [dirhash |-> h].                                                        *)
(***************************************************************************)
Min(S) == CHOOSE x \in S : \A y \in S : x <= y

\* malloc_or_die(sizeof(node_t)): the lowest cell that is not allocated.
malloc_node(hp) == Min((1 .. (Cardinality(DOMAIN hp) + 1)) \ DOMAIN hp)

\* Store node record nd in cell p (allocating it when new).
Store(hp, p, nd) == [q \in (DOMAIN hp) \cup {p} |-> IF q = p THEN nd ELSE hp[q]]

\* free(p)
Free(hp, p) == [q \in (DOMAIN hp) \ {p} |-> hp[q]]

\* parent->payload.dirhash updated in place.
SetDirhash(hp, p, h) == [hp EXCEPT ![p].payload = [dirhash |-> h]]

(***************************************************************************)
(* simplefs.c                                                              *)
(***************************************************************************)
\* fs_free_file that leaves the file's entry in the parent's hashtable.
fs_free_file_keep_entry(hp, file) == Free(hp, file)

\* fs_free_file: free the content, remove the parent's entry, free the node.
fs_free_file(hp, file) ==
    LET parent == hp[file].parent
        h == hashtable_remove(hp[parent].payload.dirhash, hp[file].name)
    IN  Free(SetDirhash(hp, parent, h), file)

\* fs_free_dir that removes the parent's entry before it checks that the
\* directory is empty.
fs_free_dir_detach_first(hp, dir) ==
    LET parent == hp[dir].parent
        h == hashtable_remove(hp[parent].payload.dirhash, hp[dir].name)
    IN  IF hashtable_get_size(hp[dir].payload.dirhash) = 0
        THEN [heap |-> Free(SetDirhash(hp, parent, h), dir), res |-> 0]
        ELSE [heap |-> SetDirhash(hp, parent, h), res |-> 0 - 1]

\* fs_free_dir without the check that the directory is empty.
fs_free_dir_unchecked(hp, dir) ==
    LET parent == hp[dir].parent
        h == hashtable_remove(hp[parent].payload.dirhash, hp[dir].name)
    IN  [heap |-> Free(SetDirhash(hp, parent, h), dir), res |-> 0]

\* fs_free_dir: only an empty directory is freed; res is 0 or -1.  On a
\* directory without a parent (the root) the argument of hashtable_remove
\* reads NULL->payload: the read faults and the process is killed inside the
\* call, after the directory's own table is destroyed.
fs_free_dir(hp, dir) ==
    IF hashtable_get_size(hp[dir].payload.dirhash) = 0
    THEN LET parent == hp[dir].parent
         IN  IF parent = NULL THEN Killed
             ELSE LET h == hashtable_remove(hp[parent].payload.dirhash,
                                            hp[dir].name)
                  IN  [heap |-> Free(SetDirhash(hp, parent, h), dir),
                       res |-> 0]
    ELSE [heap |-> hp, res |-> 0 - 1]

(***************************************************************************)
(* The destructors statement by statement.  A memory state is the heap     *)
(* together with freed, the pieces of storage released so far: pairs of a  *)
(* cell and "content", "dirhash", "name" or "node".  The result is the     *)
(* sequence of memory states from the call to the return.                  *)
(***************************************************************************)
\* fs_free_file that frees the name before it removes the parent's entry.
fs_free_file_steps_name_first(hp, file) ==
    LET parent == hp[file].parent
        h == hashtable_remove(hp[parent].payload.dirhash, hp[file].name)
        m0 == [heap |-> hp, freed |-> {}]
        m1 == [heap |-> hp, freed |-> {<<file, "content">>}]
        m2 == [heap |-> hp, freed |-> m1.freed \cup {<<file, "name">>}]
        m3 == [heap |-> SetDirhash(hp, parent, h), freed |-> m2.freed]
        m4 == [heap |-> Free(m3.heap, file),
               freed |-> m3.freed \cup {<<file, "node">>}]
    IN  <<m0, m1, m2, m3, m4>>

fs_free_file_steps(hp, file) ==
    LET parent == hp[file].parent
        h == hashtable_remove(hp[parent].payload.dirhash, hp[file].name)
        m0 == [heap |-> hp, freed |-> {}]
        \* free(file->payload.content)
        m1 == [heap |-> hp, freed |-> {<<file, "content">>}]
        \* hashtable_remove(file->parent->payload.dirhash, file->name)
        m2 == [heap |-> SetDirhash(hp, parent, h), freed |-> m1.freed]
        \* free(file->name)
        m3 == [heap |-> m2.heap, freed |-> m2.freed \cup {<<file, "name">>}]
        \* free(file)
        m4 == [heap |-> Free(m3.heap, file),
               freed |-> m3.freed \cup {<<file, "node">>}]
    IN  <<m0, m1, m2, m3, m4>>

\* On a directory without a parent the sequence ends with Killed: the
\* process dies at the second statement.
fs_free_dir_steps(hp, dir) ==
    IF hashtable_get_size(hp[dir].payload.dirhash) = 0
    THEN LET parent == hp[dir].parent
             h == hashtable_remove(hp[parent].payload.dirhash, hp[dir].name)
             m0 == [heap |-> hp, freed |-> {}]
             \* hashtable_destroy(dir->payload.dirhash)
             m1 == [heap |-> hp, freed |-> {<<dir, "dirhash">>}]
             \* hashtable_remove(dir->parent->payload.dirhash, dir->name)
             m2 == [heap |-> SetDirhash(hp, parent, h), freed |-> m1.freed]
             \* free(dir->name)
             m3 == [heap |-> m2.heap,
                    freed |-> m2.freed \cup {<<dir, "name">>}]
             \* free(dir)
             m4 == [heap |-> Free(m3.heap, dir),
                    freed |-> m3.freed \cup {<<dir, "node">>}]
         IN  IF parent = NULL THEN <<m0, m1, Killed>>
             ELSE <<m0, m1, m2, m3, m4>>
    ELSE <<[heap |-> hp, freed |-> {}]>>

\* fs_delete statement by statement.
fs_delete_steps(hp, node) ==
    IF hp[node].type = Dir
    THEN fs_free_dir_steps(hp, node)
    ELSE fs_free_file_steps(hp, node)

fs_get_type(hp, node) == hp[node].type

fs_get_file_content(hp, node) ==
    IF hp[node].type # File THEN NULLSTR ELSE hp[node].payload.content

\* fs_set_file_content that keeps the old content in front of the new.
fs_set_file_content_append(hp, node, new_content) ==
    IF fs_get_type(hp, node) # File
    THEN [heap |-> hp, res |-> 0 - 1]
    ELSE [heap |-> [hp EXCEPT ![node].payload =
                        [content |-> hp[node].payload.content
                                        \o my_strdup(new_content)]],
          res |-> 0]

\* fs_set_file_content without the check that the node is a File.
fs_set_file_content_any_kind(hp, node, new_content) ==
    [heap |-> [hp EXCEPT ![node].payload =
                    [content |-> my_strdup(new_content)]],
     res |-> 0]

fs_set_file_content(hp, node, new_content) ==
    IF fs_get_type(hp, node) # File
    THEN [heap |-> hp, res |-> 0 - 1]
    ELSE [heap |-> [hp EXCEPT ![node].payload =
                        [content |-> my_strdup(new_content)]],
          res |-> 0]

fs_find_in_dir(hp, parent, key) ==
    hashtable_get(hp[parent].payload.dirhash, key)

\* fs_create with the child's back-reference set to the root instead of
\* the directory it is inserted in.
fs_create_wrong_parent(hp, parent, key, type) ==
    IF \/ hashtable_get(hp[parent].payload.dirhash, key) # NULL
       \/ hashtable_get_size(hp[parent].payload.dirhash) >= MAX_NODES
       \/ strlen(key) > MAX_NAMELENGHT
       \/ hp[parent].depth >= MAX_DEPTH
    THEN [heap |-> hp, res |-> 0 - 1]
    ELSE LET child == malloc_node(hp)
             nd == [name |-> my_strdup(key),
                    depth |-> hp[parent].depth + 1,
                    parent |-> 1,
                    type |-> type,
                    payload |-> IF type = Dir
                                THEN [dirhash |-> hashtable_create]
                                ELSE [content |-> <<>>]]
             hp1 == Store(hp, child, nd)
             h == hashtable_set(hp1[parent].payload.dirhash, nd.name, child)
         IN  [heap |-> SetDirhash(hp1, parent, h), res |-> 0]

\* fs_create without the check that the name is not yet in the directory.
fs_create_no_exists_check(hp, parent, key, type) ==
    IF \/ hashtable_get_size(hp[parent].payload.dirhash) >= MAX_NODES
       \/ strlen(key) > MAX_NAMELENGHT
       \/ hp[parent].depth >= MAX_DEPTH
    THEN [heap |-> hp, res |-> 0 - 1]
    ELSE LET child == malloc_node(hp)
             nd == [name |-> my_strdup(key),
                    depth |-> hp[parent].depth + 1,
                    parent |-> parent,
                    type |-> type,
                    payload |-> IF type = Dir
                                THEN [dirhash |-> hashtable_create]
                                ELSE [content |-> <<>>]]
             hp1 == Store(hp, child, nd)
             h == hashtable_set(hp1[parent].payload.dirhash, nd.name, child)
         IN  [heap |-> SetDirhash(hp1, parent, h), res |-> 0]

\* fs_create that lets a directory holding MAX_NODES children take one more.
fs_create_capacity_off_by_one(hp, parent, key, type) ==
    IF \/ hashtable_get(hp[parent].payload.dirhash, key) # NULL
       \/ hashtable_get_size(hp[parent].payload.dirhash) > MAX_NODES
       \/ strlen(key) > MAX_NAMELENGHT
       \/ hp[parent].depth >= MAX_DEPTH
    THEN [heap |-> hp, res |-> 0 - 1]
    ELSE LET child == malloc_node(hp)
             nd == [name |-> my_strdup(key),
                    depth |-> hp[parent].depth + 1,
                    parent |-> parent,
                    type |-> type,
                    payload |-> IF type = Dir
                                THEN [dirhash |-> hashtable_create]
                                ELSE [content |-> <<>>]]
             hp1 == Store(hp, child, nd)
             h == hashtable_set(hp1[parent].payload.dirhash, nd.name, child)
         IN  [heap |-> SetDirhash(hp1, parent, h), res |-> 0]

\* fs_create that lets a directory at MAX_DEPTH take children.
fs_create_depth_off_by_one(hp, parent, key, type) ==
    IF \/ hashtable_get(hp[parent].payload.dirhash, key) # NULL
       \/ hashtable_get_size(hp[parent].payload.dirhash) >= MAX_NODES
       \/ strlen(key) > MAX_NAMELENGHT
       \/ hp[parent].depth > MAX_DEPTH
    THEN [heap |-> hp, res |-> 0 - 1]
    ELSE LET child == malloc_node(hp)
             nd == [name |-> my_strdup(key),
                    depth |-> hp[parent].depth + 1,
                    parent |-> parent,
                    type |-> type,
                    payload |-> IF type = Dir
                                THEN [dirhash |-> hashtable_create]
                                ELSE [content |-> <<>>]]
             hp1 == Store(hp, child, nd)
             h == hashtable_set(hp1[parent].payload.dirhash, nd.name, child)
         IN  [heap |-> SetDirhash(hp1, parent, h), res |-> 0]

\* fs_create that writes the new depth into the parent as well (the
\* increment lands on parent->depth).
fs_create_bumps_parent_depth(hp, parent, key, type) ==
    IF \/ hashtable_get(hp[parent].payload.dirhash, key) # NULL
       \/ hashtable_get_size(hp[parent].payload.dirhash) >= MAX_NODES
       \/ strlen(key) > MAX_NAMELENGHT
       \/ hp[parent].depth >= MAX_DEPTH
    THEN [heap |-> hp, res |-> 0 - 1]
    ELSE LET child == malloc_node(hp)
             nd == [name |-> my_strdup(key),
                    depth |-> hp[parent].depth + 1,
                    parent |-> parent,
                    type |-> type,
                    payload |-> IF type = Dir
                                THEN [dirhash |-> hashtable_create]
                                ELSE [content |-> <<>>]]
             hp1 == Store(hp, child, nd)
             h == hashtable_set(hp1[parent].payload.dirhash, nd.name, child)
         IN  [heap |-> [SetDirhash(hp1, parent, h)
                           EXCEPT ![parent].depth = hp[parent].depth + 1],
              res |-> 0]

fs_create(hp, parent, key, type) ==
    IF \/ hashtable_get(hp[parent].payload.dirhash, key) # NULL
       \/ hashtable_get_size(hp[parent].payload.dirhash) >= MAX_NODES
       \/ strlen(key) > MAX_NAMELENGHT
       \/ hp[parent].depth >= MAX_DEPTH
    THEN [heap |-> hp, res |-> 0 - 1]
    ELSE LET child == malloc_node(hp)
             nd == [name |-> my_strdup(key),
                    depth |-> hp[parent].depth + 1,
                    parent |-> parent,
                    type |-> type,
                    payload |-> IF type = Dir
                                THEN [dirhash |-> hashtable_create]
                                ELSE [content |-> <<>>]]
             hp1 == Store(hp, child, nd)
             h == hashtable_set(hp1[parent].payload.dirhash, nd.name, child)
         IN  [heap |-> SetDirhash(hp1, parent, h), res |-> 0]

fs_delete(hp, node) ==
    IF hp[node].type = Dir
    THEN fs_free_dir(hp, node)
    ELSE [heap |-> fs_free_file(hp, node), res |-> 0]

\* fs_delete_r and its while loop, which restarts the cursor at 0 after
\* every removal.
RECURSIVE fs_delete_r(_, _, _)
RECURSIVE fs_delete_r_loop(_, _, _)
\* fs_delete_r's loop that goes on from where the cursor stands instead of
\* restarting it after a removal.
RECURSIVE fs_delete_r_loop_from(_, _, _, _)
fs_delete_r_loop_from(hp, node, state, ord) ==
    LET it == hashtable_iterate(hp[node].payload.dirhash, state, ord)
    IN  IF it.value # NULL
        THEN fs_delete_r_loop_from(fs_delete_r(hp, it.value, ord), node,
                                   it.state, ord)
        ELSE hp

fs_delete_r_loop_keep_cursor(hp, node, ord) ==
    fs_delete_r_loop_from(hp, node, 0, ord)

fs_delete_r_loop(hp, node, ord) ==
    LET child == hashtable_iterate(hp[node].payload.dirhash, 0, ord).value
    IN  IF child # NULL
        THEN fs_delete_r_loop(fs_delete_r(hp, child, ord), node, ord)
        ELSE hp

\* fs_delete_r that frees a directory without deleting its children first.
fs_delete_r_no_descent(hp, node, ord) ==
    IF hp[node].type = Dir
    THEN LET parent == hp[node].parent
             h == hashtable_remove(hp[parent].payload.dirhash, hp[node].name)
         IN  Free(SetDirhash(hp, parent, h), node)
    ELSE fs_free_file(hp, node)

\* fs_delete_r: the heap afterwards, or Killed when fs_free_dir is killed.
fs_delete_r(hp, node, ord) ==
    IF hp[node].type = Dir
    THEN LET hp1 == IF hashtable_get_size(hp[node].payload.dirhash) > 0
                    THEN fs_delete_r_loop(hp, node, ord)
                    ELSE hp
             r == fs_free_dir(hp1, node)
         IN  IF r = Killed THEN Killed ELSE r.heap
    ELSE fs_free_file(hp, node)

\* fs_new_root: the heap holding only the root, in cell root.
root == 1

fs_new_root ==
    [p \in {root} |-> [name |-> <<>>, depth |-> 1, parent |-> NULL,
                       type |-> Dir,
                       payload |-> [dirhash |-> hashtable_create]]]

\* fs_get_path: the do-while loop prepends "/" and the name, then climbs.
\* Climbing from the root leaves node NULL, and the loop condition then
\* reads NULL->parent: the read of address 0 faults and the process is
\* killed inside the call (SIGSEGV), which returns nothing.
RECURSIVE fs_get_path_loop(_, _, _)
fs_get_path_loop(hp, node, path) ==
    LET path1 == <<"/">> \o hp[node].name \o path
        node1 == hp[node].parent
    IN  IF node1 = NULL THEN SIGSEGV
        ELSE IF hp[node1].parent # NULL
        THEN fs_get_path_loop(hp, node1, path1)
        ELSE path1

\* Whether fs_get_path(node) evaluates its loop condition node->parent on a
\* null node: the body climbs with node = node->parent before the condition
\* is tested, and nothing tests the node it climbed to.
RECURSIVE fs_get_path_reads_null(_, _)
fs_get_path_reads_null(hp, node) ==
    LET node1 == hp[node].parent
    IN  IF node1 = NULL THEN TRUE
        ELSE IF hp[node1].parent # NULL
        THEN fs_get_path_reads_null(hp, node1)
        ELSE FALSE

\* fs_get_path that stops after the node's own name.
fs_get_path_leaf_only(hp, node) == <<"/">> \o hp[node].name

fs_get_path(hp, node) == fs_get_path_loop(hp, node, <<>>)

\* fs_find_r: the array of matches, in iteration order.
RECURSIVE fs_find_r(_, _, _, _, _)
RECURSIVE fs_find_r_loop(_, _, _, _, _, _)
\* fs_find_r's loop with "else if": a child that matched is not searched.
fs_find_r_loop_skip_matched(hp, node, name, array, state, ord) ==
    LET it == hashtable_iterate(hp[node].payload.dirhash, state, ord)
        child == it.value
    IN  IF child = NULL THEN array
        ELSE LET a2 == IF strcmp(hp[child].name, name) = 0
                       THEN Append(array, child)
                       ELSE IF hp[child].type = Dir
                       THEN fs_find_r(hp, child, name, array, ord)
                       ELSE array
             IN  fs_find_r_loop(hp, node, name, a2, it.state, ord)

fs_find_r_loop(hp, node, name, array, state, ord) ==
    LET it == hashtable_iterate(hp[node].payload.dirhash, state, ord)
        child == it.value
    IN  IF child = NULL THEN array
        ELSE LET a1 == IF strcmp(hp[child].name, name) = 0
                       THEN Append(array, child) ELSE array
                 a2 == IF hp[child].type = Dir
                       THEN fs_find_r(hp, child, name, a1, ord) ELSE a1
             IN  fs_find_r_loop(hp, node, name, a2, it.state, ord)

fs_find_r(hp, node, name, array, ord) ==
    fs_find_r_loop(hp, node, name, array, 0, ord)


(***************************************************************************)
(* main.c                                                                  *)
(***************************************************************************)
\* The response formats.
RES_OK == <<"o", "k", "\n">>
RES_FAIL == <<"n", "o", "\n">>
RES_READ(x) == <<"c", "o", "n", "t", "e", "n", "u", "t", "o", " ">> \o x \o <<"\n">>
RES_FIND(x) == <<"o", "k", " ">> \o x \o <<"\n">>

\* printf("%d", n) for n >= 0.
RECURSIVE Decimal(_)
Decimal(n) ==
    LET d == <<"0", "1", "2", "3", "4", "5", "6", "7", "8", "9">>[(n % 10) + 1]
    IN  IF n < 10 THEN <<d>> ELSE Append(Decimal(n \div 10), d)

RES_WRITE(n) == <<"o", "k", " ">> \o Decimal(n) \o <<"\n">>

\* The command words compared against the first token of a line.
W_create == <<"c", "r", "e", "a", "t", "e">>
W_create_dir == <<"c", "r", "e", "a", "t", "e", "_", "d", "i", "r">>
W_read == <<"r", "e", "a", "d">>
W_write == <<"w", "r", "i", "t", "e">>
W_delete == <<"d", "e", "l", "e", "t", "e">>
W_delete_r == <<"d", "e", "l", "e", "t", "e", "_", "r">>
W_find == <<"f", "i", "n", "d">>
W_exit == <<"e", "x", "i", "t">>

\* enter_path's while loop.  cur and next are the results of the strtok
\* calls that produced cur_token and next_token; tk is the tokenizer state.
RECURSIVE enter_path_loop(_, _, _, _, _, _)
\* enter_path's loop that, at a component it does not find, returns the node
\* reached so far instead of NULL.
enter_path_loop_partial(hp, node, cur, next, tk, capture) ==
    IF cur.tok = NULL THEN [node |-> node, new_name |-> NULLSTR]
    ELSE IF fs_get_type(hp, node) = Dir
    THEN LET tmp == fs_find_in_dir(hp, node, cur.str)
         IN  IF tmp # NULL
             THEN LET nx == strtok(tk, NULL, DelimNext)
                  IN  enter_path_loop(hp, tmp, next, nx,
                                      [buf |-> nx.buf, save |-> nx.save],
                                      capture)
             ELSE IF capture /\ next.tok = NULL
             THEN [node |-> node, new_name |-> cur.str]
             ELSE [node |-> node, new_name |-> NULLSTR]
    ELSE [node |-> NULL, new_name |-> NULLSTR]

\* enter_path's loop that captures a missing name without looking whether it
\* is the last token.
enter_path_loop_capture_any(hp, node, cur, next, tk, capture) ==
    IF cur.tok = NULL THEN [node |-> node, new_name |-> NULLSTR]
    ELSE IF fs_get_type(hp, node) = Dir
    THEN LET tmp == fs_find_in_dir(hp, node, cur.str)
         IN  IF tmp # NULL
             THEN LET nx == strtok(tk, NULL, DelimNext)
                  IN  enter_path_loop(hp, tmp, next, nx,
                                      [buf |-> nx.buf, save |-> nx.save],
                                      capture)
             ELSE IF capture
             THEN [node |-> node, new_name |-> cur.str]
             ELSE [node |-> NULL, new_name |-> NULLSTR]
    ELSE [node |-> NULL, new_name |-> NULLSTR]

enter_path_loop(hp, node, cur, next, tk, capture) ==
    IF cur.tok = NULL THEN [node |-> node, new_name |-> NULLSTR]
    ELSE IF fs_get_type(hp, node) = Dir
    THEN LET tmp == fs_find_in_dir(hp, node, cur.str)
         IN  IF tmp # NULL
             THEN LET nx == strtok(tk, NULL, DelimNext)
                  IN  enter_path_loop(hp, tmp, next, nx,
                                      [buf |-> nx.buf, save |-> nx.save],
                                      capture)
             ELSE IF capture /\ next.tok = NULL
             THEN [node |-> node, new_name |-> cur.str]
             ELSE [node |-> NULL, new_name |-> NULLSTR]
    ELSE [node |-> NULL, new_name |-> NULLSTR]

\* enter_path(node, path, new_name): path is a position in the buffer or
\* NULL; capture says whether new_name was passed.  new_name in the result
\* is what *new_name holds afterwards (the callers initialise it to NULL).
\* enter_path that takes a path without a token for the start node itself.
enter_path_empty_is_start(hp, node, tk, path, capture) ==
    LET cur == strtok(tk, path, DelimFirst)
        next == strtok([buf |-> cur.buf, save |-> cur.save], NULL, DelimNext)
    IN  IF cur.tok = NULL
        THEN [node |-> node, new_name |-> NULLSTR]
        ELSE enter_path_loop(hp, node, cur, next,
                             [buf |-> next.buf, save |-> next.save], capture)

enter_path(hp, node, tk, path, capture) ==
    LET cur == strtok(tk, path, DelimFirst)
        next == strtok([buf |-> cur.buf, save |-> cur.save], NULL, DelimNext)
    IN  IF cur.tok = NULL
        THEN [node |-> NULL, new_name |-> NULLSTR]
        ELSE enter_path_loop(hp, node, cur, next,
                             [buf |-> next.buf, save |-> next.save], capture)

\* do_create: the heap afterwards and what is printed.
do_create(hp, tk, type) ==
    LET ep == enter_path(hp, root, tk, NULL, TRUE)
        cr == IF ep.new_name # NULLSTR
              THEN fs_create(hp, ep.node, ep.new_name, type)
              ELSE [heap |-> hp, res |-> 0 - 1]
    IN  [heap |-> cr.heap, out |-> IF cr.res = 0 THEN RES_OK ELSE RES_FAIL]

do_read(hp, tk) ==
    LET node == enter_path(hp, root, tk, NULL, FALSE).node
        content == IF node # NULL THEN fs_get_file_content(hp, node)
                                  ELSE NULLSTR
    IN  [heap |-> hp,
         out |-> IF node # NULL /\ content # NULLSTR
                 THEN RES_READ(content) ELSE RES_FAIL]

\* The two tokens do_write takes before it resolves the path.
write_tokens(tk) ==
    LET path == strtok(tk, NULL, DelimCmd)
        new_content == strtok([buf |-> path.buf, save |-> path.save],
                              NULL, DelimContent)
    IN  [path |-> path, new_content |-> new_content]

do_write(hp, tk) ==
    LET path == write_tokens(tk).path
        new_content == write_tokens(tk).new_content
        node == enter_path(hp, root,
                           [buf |-> new_content.buf, save |-> new_content.save],
                           path.tok, FALSE).node
        wr == IF node # NULL /\ new_content.tok # NULL
              THEN fs_set_file_content(hp, node, new_content.str)
              ELSE [heap |-> hp, res |-> 0 - 1]
    IN  [heap |-> wr.heap,
         out |-> IF wr.res = 0 THEN RES_WRITE(strlen(new_content.str))
                               ELSE RES_FAIL]

\* do_delete that deletes recursively whatever the command.
do_delete_always_recursive(hp, tk, recursive, ord) ==
    LET node == enter_path(hp, root, tk, NULL, FALSE).node
        dl == IF node # NULL
              THEN [heap |-> fs_delete_r(hp, node, ord), res |-> 0]
              ELSE [heap |-> hp, res |-> 0 - 1]
    IN  [heap |-> dl.heap, out |-> IF dl.res = 0 THEN RES_OK ELSE RES_FAIL]

do_delete(hp, tk, recursive, ord) ==
    LET node == enter_path(hp, root, tk, NULL, FALSE).node
        dl == IF node # NULL
              THEN IF recursive
                   THEN [heap |-> fs_delete_r(hp, node, ord), res |-> 0]
                   ELSE fs_delete(hp, node)
              ELSE [heap |-> hp, res |-> 0 - 1]
    IN  [heap |-> dl.heap, out |-> IF dl.res = 0 THEN RES_OK ELSE RES_FAIL]

\* compare_str and qsort: the paths in ascending strcmp order.
RECURSIVE Insert(_, _)
Insert(sorted, x) ==
    IF sorted = <<>> THEN <<x>>
    ELSE IF strcmp(x, Head(sorted)) <= 0 THEN <<x>> \o sorted
    ELSE <<Head(sorted)>> \o Insert(Tail(sorted), x)

RECURSIVE qsort(_)
qsort(paths) ==
    IF paths = <<>> THEN <<>>
    ELSE Insert(qsort(Tail(paths)), Head(paths))

RECURSIVE PrintFind(_)
PrintFind(paths) ==
    IF paths = <<>> THEN <<>>
    ELSE RES_FIND(Head(paths)) \o PrintFind(Tail(paths))

\* do_find with a token.  (Without one, strcmp reads a null pointer as soon
\* as the root has a child: see DoFind.)  A fault in one of the fs_get_path
\* calls kills the process before anything is printed.
do_find(hp, token, ord) ==
    LET res == fs_find_r(hp, root, token, <<>>, ord)
        paths == [i \in 1 .. Len(res) |-> fs_get_path(hp, res[i])]
    IN  IF \E i \in 1 .. Len(res) : paths[i] = SIGSEGV THEN SIGSEGV
        ELSE IF Len(res) > 0 THEN PrintFind(qsort(paths)) ELSE RES_FAIL


(***************************************************************************)
(* The input lines my_getline may return.                                  *)
(***************************************************************************)
Names == {"a", "b", "c"}

\* The names tried at each level below the root: three at the first (one
\* more than MAX_NODES), fewer further down.
LevelNames(i) ==
    IF i = 1 THEN Names ELSE IF i = 2 THEN {"a", "b"} ELSE {"a"}

\* "/t1/t2/.../tn"
RECURSIVE PathOf(_)
PathOf(ts) == IF ts = <<>> THEN <<>> ELSE <<"/", Head(ts)>> \o PathOf(Tail(ts))

\* Paths of up to MAX_DEPTH components, a path whose name is too long, a
\* path of separators only, and a path whose second name is a blank (only
\* the first token of a path is cut at blanks).
Paths ==
    {PathOf(ts) : ts \in UNION {{t \in [1 .. n -> Names] :
                                    \A i \in 1 .. n : t[i] \in LevelNames(i)} :
                                n \in 1 .. MAX_DEPTH}}
    \cup {<<"/", "a", "a">>, <<"/">>, <<"/", "a", "/", " ">>}

Contents == {<<"x">>, <<"y">>, <<>>}

Quoted(c) == <<"\"">> \o c \o <<"\"">>

CommandLine(word, arg) == word \o <<" ">> \o arg \o <<"\n">>

EOF == <<>>

\* The input of the scenario: a directory /a, a file /a/f that is written
\* and read, a delete of /a, a delete_r of /a, and a last read of /a/f.
Scenario ==
    <<CommandLine(W_create_dir, PathOf(<<"a">>)),
      CommandLine(W_create, PathOf(<<"a", "f">>)),
      CommandLine(W_write, PathOf(<<"a", "f">>) \o <<" ">>
                              \o Quoted(<<"h", "e", "l", "l", "o">>)),
      CommandLine(W_read, PathOf(<<"a", "f">>)),
      CommandLine(W_delete, PathOf(<<"a">>)),
      CommandLine(W_delete_r, PathOf(<<"a">>)),
      CommandLine(W_read, PathOf(<<"a", "f">>))>>

Lines ==
    {CommandLine(w, p) :
        w \in {W_create, W_create_dir, W_read, W_delete, W_delete_r},
        p \in Paths}
    \cup {CommandLine(W_write, p \o <<" ">> \o Quoted(c)) :
             p \in Paths, c \in Contents}
    \cup {CommandLine(W_find, <<n>>) : n \in Names}
    \cup {W_find \o <<"\n">>, W_exit \o <<"\n">>, <<"\n">>, EOF}
    \cup {Scenario[i] : i \in DOMAIN Scenario}

(***************************************************************************)
(* The command loop of main.  pc is the place in the loop:                 *)
(*   "getline"   about to call my_getline                                  *)
(*   "dispatch"  a line is read and not yet handled                        *)
(*   "free"      the command is handled, its line not yet freed            *)
(*   "exited"    main has returned                                         *)
(*   "crashed"   the process was killed by a fault                         *)
(* out is what the command of the current line has printed.  prev is a     *)
(* history variable: the heap as it was when the current line was read.    *)
(* step is a history variable too: the number of lines read so far while   *)
(* the input has been exactly the first lines of Scenario, and -1 once the *)
(* input has left the scenario.                                            *)
(***************************************************************************)
Init ==
    /\ heap = fs_new_root
    /\ line = NULLSTR
    /\ out = <<>>
    /\ pc = "getline"
    /\ prev = fs_new_root
    /\ step = 0

\* The first token of the line, as main takes it.
Token == strtok([buf |-> line, save |-> NULL], 1, DelimCmd)

\* The tokenizer state the handlers continue from.
AfterToken == [buf |-> Token.buf, save |-> Token.save]

Dispatching(words) ==
    /\ pc = "dispatch"
    /\ line # EOF
    /\ Token.tok # NULL
    /\ Token.str \in words

\* Whether handling line l on the tree hp allocates a node: l is a create
\* or create_dir that succeeds.
Grows(hp, l) ==
    LET t == strtok([buf |-> l, save |-> NULL], 1, DelimCmd)
    IN  /\ l # EOF
        /\ t.tok # NULL
        /\ t.str \in {W_create, W_create_dir}
        /\ do_create(hp, [buf |-> t.buf, save |-> t.save],
                     IF t.str = W_create THEN File ELSE Dir).out = RES_OK

\* line = my_getline().  The input is bounded: a line that would allocate a
\* node is read only while the tree holds fewer than MaxHeap nodes besides
\* the root.
GetLine ==
    /\ pc = "getline"
    /\ \E l \in Lines :
          /\ Cardinality(DOMAIN heap) <= MaxHeap \/ ~Grows(heap, l)
          /\ line' = l
          /\ step' = IF step \in 0 .. (Len(Scenario) - 1) /\ l = Scenario[step + 1]
                     THEN step + 1 ELSE 0 - 1
    /\ pc' = "dispatch"
    /\ UNCHANGED <<heap, out, prev>>

\* create <path> and create_dir <path>
DoCreate ==
    /\ Dispatching({W_create, W_create_dir})
    /\ LET r == do_create(heap, AfterToken,
                          IF Token.str = W_create THEN File ELSE Dir)
       IN  /\ heap' = r.heap
           /\ out' = r.out
    /\ pc' = "free"
    /\ UNCHANGED <<line, prev, step>>

DoRead ==
    /\ Dispatching({W_read})
    /\ LET r == do_read(heap, AfterToken)
       IN  /\ heap' = r.heap
           /\ out' = r.out
    /\ pc' = "free"
    /\ UNCHANGED <<line, prev, step>>

DoWrite ==
    /\ Dispatching({W_write})
    /\ LET r == do_write(heap, AfterToken)
       IN  /\ heap' = r.heap
           /\ out' = r.out
    /\ pc' = "free"
    /\ UNCHANGED <<line, prev, step>>

\* delete <path> and delete_r <path>
DoDelete ==
    /\ Dispatching({W_delete, W_delete_r})
    /\ \E ord \in Orders :
          LET r == do_delete(heap, AfterToken, Token.str = W_delete_r, ord)
          IN  /\ heap' = r.heap
              /\ out' = r.out
    /\ pc' = "free"
    /\ UNCHANGED <<line, prev, step>>

\* find <name>.  With no name the token is NULL, and strcmp reads it as soon
\* as the root has a child to compare: the process faults.
DoFind ==
    /\ Dispatching({W_find})
    /\ LET t == strtok(AfterToken, NULL, DelimCmd)
       IN  IF t.tok = NULL /\ hashtable_get_size(heap[root].payload.dirhash) > 0
           THEN /\ pc' = "crashed"
                /\ UNCHANGED out
           ELSE \E ord \in Orders :
                   LET printed == do_find(heap, t.str, ord)
                   IN  IF printed = SIGSEGV
                       THEN /\ pc' = "crashed"
                            /\ UNCHANGED out
                       ELSE /\ out' = printed
                            /\ pc' = "free"
    /\ UNCHANGED <<heap, line, prev, step>>

\* A blank line or an unknown command: nothing is done.
Skip ==
    /\ pc = "dispatch"
    /\ line # EOF
    /\ \/ Token.tok = NULL
       \/ Token.str \notin {W_create, W_create_dir, W_read, W_write,
                            W_delete, W_delete_r, W_find, W_exit}
    /\ pc' = "free"
    /\ UNCHANGED <<heap, line, out, prev, step>>

\* free(line) at the end of the loop body.
FreeLine ==
    /\ pc = "free"
    /\ line' = NULLSTR
    /\ out' = <<>>
    /\ pc' = "getline"
    /\ prev' = heap
    /\ UNCHANGED <<heap, step>>

\* exit, or the empty line my_getline returns at end of input: the loop
\* ends, main frees the line and releases the root.
Exit ==
    /\ pc = "dispatch"
    /\ \/ line = EOF
       \/ Token.tok # NULL /\ Token.str = W_exit
    /\ line' = NULLSTR
    /\ heap' = Free(heap, root)
    /\ pc' = "exited"
    /\ UNCHANGED <<out, prev, step>>

Next ==
    \/ GetLine
    \/ DoCreate
    \/ DoRead
    \/ DoWrite
    \/ DoDelete
    \/ DoFind
    \/ Skip
    \/ FreeLine
    \/ Exit

Spec == Init /\ [][Next]_vars

\* The same program under a second name: the statements C11 to C20 are
\* checked under it, in runs of their own.
Spec2 == Init /\ [][Next]_vars


(***************************************************************************)
(* Helpers for stating the properties.                                     *)
(***************************************************************************)
\* The process is in its command loop (main has not released the root).
Running == pc # "exited"

\* The head of the command loop.  The heap changes only in the handlers,
\* and every heap a handler leaves arrives here with the next FreeLine: a
\* statement about the engine operations on "every reachable tree" is
\* evaluated here.
AtLoopHead == pc = "getline"

IsDir(hp, n) == hp[n].type = Dir

Children(hp, n) ==
    IF IsDir(hp, n)
    THEN {hp[n].payload.dirhash[k] : k \in DOMAIN hp[n].payload.dirhash}
    ELSE {}

\* n reaches the root in at most k parent steps.
RECURSIVE ReachesRoot(_, _, _)
ReachesRoot(hp, n, k) ==
    IF n = root THEN TRUE
    ELSE IF k = 0 \/ n \notin DOMAIN hp THEN FALSE
    ELSE ReachesRoot(hp, hp[n].parent, k - 1)

\* The proper descendants of n: the nodes other than n whose parent chain
\* passes through n.
RECURSIVE Under(_, _, _, _)
Under(hp, m, n, k) ==
    IF m = NULL \/ m \notin DOMAIN hp \/ k = 0 THEN FALSE
    ELSE IF hp[m].parent = n THEN TRUE
    ELSE Under(hp, hp[m].parent, n, k - 1)

Descendants(hp, n) ==
    {m \in DOMAIN hp : Under(hp, m, n, Cardinality(DOMAIN hp))}

Dirs(hp) == {n \in DOMAIN hp : IsDir(hp, n)}

Files(hp) == {n \in DOMAIN hp : hp[n].type = File}

\* The names the engine operations are tried with: the names of the input
\* paths, a blank, and a name longer than MAX_NAMELENGHT.
EngineKeys == {<<n>> : n \in Names} \cup {<<" ">>, <<"a", "a">>}

\* enter_path(root, path, NULL) on a buffer holding just the string path.
Resolve(hp, path) ==
    enter_path(hp, root, [buf |-> path, save |-> NULL], 1, FALSE).node

\* The command word of the current line.
Cmd == Token.str

\* The node that the path of a read, delete or delete_r line named when the
\* line was read (NULL when it named none).
Target == enter_path(prev, root, AfterToken, NULL, FALSE).node

\* The child of the root named by the one-character name c, or NULL.
TopLevel(hp, c) == hashtable_get(hp[root].payload.dirhash, <<c>>)


(***************************************************************************)
(* C3.  Tree well-formedness: while the command loop runs, the root is     *)
(* allocated and is the only node without a parent; every other node's     *)
(* parent is an allocated Directory whose index maps the node's own name   *)
(* to exactly that node; every index entry leads to an allocated node      *)
(* stored under its own name whose parent is that directory; and every     *)
(* node reaches the root along parent links (connected, no cycle).         *)
(***************************************************************************)
C3_TreeWellFormed ==
    Running =>
        /\ root \in DOMAIN heap
        /\ heap[root].parent = NULL
        /\ IsDir(heap, root)
        /\ \A n \in DOMAIN heap \ {root} :
              LET p == heap[n].parent
              IN  /\ p # NULL
                  /\ p \in DOMAIN heap
                  /\ IsDir(heap, p)
                  /\ hashtable_get(heap[p].payload.dirhash, heap[n].name) = n
        /\ \A d \in DOMAIN heap : \A c \in Children(heap, d) :
              /\ c \in DOMAIN heap
              /\ heap[c].parent = d
              /\ hashtable_get(heap[d].payload.dirhash, heap[c].name) = c
        /\ \A n \in DOMAIN heap :
              ReachesRoot(heap, n, Cardinality(DOMAIN heap))

\* A tree with a node two levels below the root, right after a command
\* that created or deleted something.
C3_Witness ==
    /\ pc = "free"
    /\ out = RES_OK
    /\ \E n \in DOMAIN heap : heap[n].depth = 3


(***************************************************************************)
(* C1.  Failure atomicity.  In every tree the command loop reaches, a       *)
(* create (in any directory, with any name and kind), a non-recursive      *)
(* delete (of any node but the root) and a writeContent (to any node) that *)
(* returns failure returns the tree unchanged; each of the causes (sibling *)
(* exists, directory full, name too long, parent at MAX_DEPTH, directory   *)
(* not empty, write to a directory) does make the operation fail; and a    *)
(* create, create_dir, delete or write command that answers "no" has left  *)
(* the heap as it was when its line was read.                              *)
(***************************************************************************)
CreateFailureCause(hp, d, k) ==
    \/ k \in DOMAIN hp[d].payload.dirhash
    \/ Cardinality(DOMAIN hp[d].payload.dirhash) >= MAX_NODES
    \/ Len(k) > MAX_NAMELENGHT
    \/ hp[d].depth >= MAX_DEPTH

C1_FailureAtomic ==
    Running =>
        /\ AtLoopHead =>
           \A d \in Dirs(heap) : \A k \in EngineKeys : \A t \in {File, Dir} :
              LET r == fs_create(heap, d, k, t)
              IN  /\ r.res # 0 => r.heap = heap
                  /\ CreateFailureCause(heap, d, k) => r.res # 0
        /\ AtLoopHead =>
           \A n \in DOMAIN heap \ {root} :
              LET r == fs_delete(heap, n)
              IN  /\ r.res # 0 => r.heap = heap
                  /\ (IsDir(heap, n) /\ Children(heap, n) # {}) => r.res # 0
        /\ AtLoopHead =>
           \A n \in DOMAIN heap : \A c \in Contents :
              LET r == fs_set_file_content(heap, n, c)
              IN  /\ r.res # 0 => r.heap = heap
                  /\ IsDir(heap, n) => r.res # 0
        /\ (/\ pc = "free"
            /\ Cmd \in {W_create, W_create_dir, W_delete, W_write}
            /\ out = RES_FAIL) => heap = prev

\* "delete /a" has just answered "no" because /a is a directory with a
\* child, and the heap is what it was.
C1_Witness ==
    /\ pc = "free"
    /\ line = CommandLine(W_delete, PathOf(<<"a">>))
    /\ out = RES_FAIL
    /\ TopLevel(prev, "a") # NULL
    /\ Children(prev, TopLevel(prev, "a")) # {}
    /\ heap = prev

(***************************************************************************)
(* C2.  Recursive delete completeness.  In every reachable tree, for every *)
(* node n but the root and every iteration order, after deleteRecursive(n) *)
(* neither n nor any descendant of n is allocated, the former path of n    *)
(* and of each descendant resolves to no node, and n's former parent has   *)
(* exactly one child less.  A delete_r command whose path names a node     *)
(* answers "ok" and has done exactly that to the heap.                     *)
(***************************************************************************)
SubtreeGone(before, after, n) ==
    LET gone == {n} \cup Descendants(before, n)
        p == before[n].parent
    IN  /\ gone \cap DOMAIN after = {}
        /\ \A m \in gone : Resolve(after, fs_get_path(before, m)) = NULL
        /\ p \in DOMAIN after
        /\ Cardinality(Children(after, p)) = Cardinality(Children(before, p)) - 1

C2_DeleteRecursiveComplete ==
    Running =>
        /\ AtLoopHead =>
           \A n \in DOMAIN heap \ {root} : \A ord \in Orders :
              SubtreeGone(heap, fs_delete_r(heap, n, ord), n)
        /\ (pc = "free" /\ Cmd = W_delete_r /\ Target # NULL) =>
              /\ out = RES_OK
              /\ SubtreeGone(prev, heap, Target)

\* "delete_r /a" has just removed a directory /a that had a child.
C2_Witness ==
    /\ pc = "free"
    /\ line = CommandLine(W_delete_r, PathOf(<<"a">>))
    /\ out = RES_OK
    /\ TopLevel(prev, "a") # NULL
    /\ Children(prev, TopLevel(prev, "a")) # {}
    /\ DOMAIN heap = {root}


(***************************************************************************)
(* C4.  Non-recursive delete guard.  In every reachable tree and for every *)
(* node n but the root: delete(n) on a Directory with a child fails and    *)
(* returns the tree unchanged; on an empty Directory or a File it succeeds *)
(* and frees exactly the cell n, whose name then is no key of its former   *)
(* parent; once the only child of a directory is deleted, delete of that   *)
(* directory succeeds.  A delete command whose path names a node answers   *)
(* "ok" exactly when that node was a leaf, and then exactly that node is   *)
(* gone from the heap; when it answers "no" the heap is as it was.         *)
(***************************************************************************)
Leaf(hp, n) == ~IsDir(hp, n) \/ Children(hp, n) = {}

OnlyRemoved(before, after, n) ==
    /\ DOMAIN after = DOMAIN before \ {n}
    /\ before[n].name \notin DOMAIN after[before[n].parent].payload.dirhash

C4_DeleteGuard ==
    Running =>
        /\ AtLoopHead =>
           \A n \in DOMAIN heap \ {root} :
              LET r == fs_delete(heap, n)
              IN  /\ ~Leaf(heap, n) => r.res # 0 /\ r.heap = heap
                  /\ Leaf(heap, n) => r.res = 0 /\ OnlyRemoved(heap, r.heap, n)
                  /\ Cardinality(DOMAIN heap \ DOMAIN r.heap) <= 1
        /\ AtLoopHead =>
           \A d \in Dirs(heap) \ {root} : \A c \in Children(heap, d) :
              (Children(heap, d) = {c} /\ Leaf(heap, c)) =>
                  fs_delete(fs_delete(heap, c).heap, d).res = 0
        /\ (pc = "free" /\ Cmd = W_delete /\ Target # NULL) =>
              /\ out \in {RES_OK, RES_FAIL}
              /\ out = RES_OK <=> Leaf(prev, Target)
              /\ out = RES_OK => OnlyRemoved(prev, heap, Target)
              /\ out = RES_FAIL => heap = prev

\* "delete /a" has just removed the directory /a, which was empty.
C4_Witness ==
    /\ pc = "free"
    /\ line = CommandLine(W_delete, PathOf(<<"a">>))
    /\ out = RES_OK
    /\ TopLevel(prev, "a") # NULL
    /\ IsDir(prev, TopLevel(prev, "a"))
    /\ Children(prev, TopLevel(prev, "a")) = {}
    /\ TopLevel(heap, "a") = NULL

(***************************************************************************)
(* C5.  Uniqueness.  In every reachable tree, a create of a name that is   *)
(* already a key of the directory fails, for either kind, and returns the  *)
(* tree unchanged (the node stored under the name is not replaced); this   *)
(* holds in particular right after a successful create of that name, of    *)
(* either kind.  No two allocated nodes with the same parent have the same *)
(* name.  A create or create_dir command whose whole path names a node     *)
(* answers "no" and leaves the heap as it was.                             *)
(***************************************************************************)
C5_Uniqueness ==
    Running =>
        /\ AtLoopHead =>
           \A d \in Dirs(heap) : \A k \in EngineKeys : \A t \in {File, Dir} :
              /\ k \in DOMAIN heap[d].payload.dirhash =>
                    LET r == fs_create(heap, d, k, t)
                    IN  r.res # 0 /\ r.heap = heap
              /\ LET r1 == fs_create(heap, d, k, t)
                 IN  r1.res = 0 =>
                        \A t2 \in {File, Dir} :
                            LET r2 == fs_create(r1.heap, d, k, t2)
                            IN  r2.res # 0 /\ r2.heap = r1.heap
        /\ \A n \in DOMAIN heap : \A m \in DOMAIN heap :
              (n # m /\ heap[n].parent = heap[m].parent) =>
                  heap[n].name # heap[m].name
        /\ (pc = "free" /\ Cmd \in {W_create, W_create_dir} /\ Target # NULL) =>
              out = RES_FAIL /\ heap = prev

\* "create /a" has just answered "no" because /a exists, as a directory,
\* which is still there.
C5_Witness ==
    /\ pc = "free"
    /\ line = CommandLine(W_create, PathOf(<<"a">>))
    /\ out = RES_FAIL
    /\ TopLevel(prev, "a") # NULL
    /\ IsDir(prev, TopLevel(prev, "a"))
    /\ heap = prev

(***************************************************************************)
(* C6.  Capacity.  In every reachable tree every directory has at most     *)
(* MAX_NODES children; a create in a directory with MAX_NODES children     *)
(* fails and returns the tree unchanged; a create of a name that is not in *)
(* the directory and not longer than MAX_NAMELENGHT, in a directory with   *)
(* fewer than MAX_NODES children and depth below MAX_DEPTH, succeeds and   *)
(* adds exactly one child, under that name.                                *)
(***************************************************************************)
FreshValid(hp, d, k) ==
    /\ k \notin DOMAIN hp[d].payload.dirhash
    /\ Len(k) <= MAX_NAMELENGHT

C6_Capacity ==
    Running =>
        /\ \A d \in Dirs(heap) : Cardinality(Children(heap, d)) <= MAX_NODES
        /\ AtLoopHead =>
           \A d \in Dirs(heap) : \A k \in EngineKeys : \A t \in {File, Dir} :
              LET r == fs_create(heap, d, k, t)
              IN  /\ Cardinality(Children(heap, d)) = MAX_NODES =>
                        r.res # 0 /\ r.heap = heap
                  /\ (/\ Cardinality(Children(heap, d)) < MAX_NODES
                      /\ heap[d].depth < MAX_DEPTH
                      /\ FreshValid(heap, d, k)) =>
                        /\ r.res = 0
                        /\ k \in DOMAIN r.heap[d].payload.dirhash
                        /\ Cardinality(Children(r.heap, d))
                              = Cardinality(Children(heap, d)) + 1

\* "create /c" has just answered "no": the root had MAX_NODES children,
\* none of them named c, and still has them.
C6_Witness ==
    /\ pc = "free"
    /\ line = CommandLine(W_create, PathOf(<<"c">>))
    /\ out = RES_FAIL
    /\ Cardinality(Children(prev, root)) = MAX_NODES
    /\ TopLevel(prev, "c") = NULL
    /\ heap = prev

(***************************************************************************)
(* C7.  Depth.  In every reachable tree the root has depth 1, every other  *)
(* node has its parent's depth plus one, and no depth exceeds MAX_DEPTH; a *)
(* create under a directory at depth MAX_DEPTH fails; a create of a fresh  *)
(* valid name under a directory at depth MAX_DEPTH - 1 that is not full    *)
(* succeeds, and the node it adds has depth MAX_DEPTH.                     *)
(***************************************************************************)
C7_Depth ==
    Running =>
        /\ heap[root].depth = 1
        /\ \A n \in DOMAIN heap \ {root} :
              /\ heap[n].parent \in DOMAIN heap
              /\ heap[n].depth = heap[heap[n].parent].depth + 1
        /\ \A n \in DOMAIN heap : heap[n].depth <= MAX_DEPTH
        /\ AtLoopHead =>
           \A d \in Dirs(heap) : \A k \in EngineKeys : \A t \in {File, Dir} :
              LET r == fs_create(heap, d, k, t)
              IN  /\ heap[d].depth = MAX_DEPTH => r.res # 0 /\ r.heap = heap
                  /\ (/\ heap[d].depth = MAX_DEPTH - 1
                      /\ Cardinality(Children(heap, d)) < MAX_NODES
                      /\ FreshValid(heap, d, k)) =>
                        /\ r.res = 0
                        /\ r.heap[fs_find_in_dir(r.heap, d, k)].depth = MAX_DEPTH

\* "create /a/a/a" has just answered "no": /a/a is a directory at depth
\* MAX_DEPTH and has no child.
C7_Witness ==
    /\ pc = "free"
    /\ line = CommandLine(W_create, PathOf(<<"a", "a", "a">>))
    /\ out = RES_FAIL
    /\ LET d == Resolve(prev, PathOf(<<"a", "a">>))
       IN  /\ d # NULL
           /\ IsDir(prev, d)
           /\ prev[d].depth = MAX_DEPTH
    /\ heap = prev


(***************************************************************************)
(* C8.  Write/read round trip.  In every reachable tree: a File created    *)
(* under any directory with any name that create accepts reads as the      *)
(* empty string; after writeContent(c1), for any c1 of Contents (the empty *)
(* string among them), readContent returns c1; after a further             *)
(* writeContent(c2) it returns c2; the same holds for writeContent on any  *)
(* File already in the tree.  A read command whose path names a File       *)
(* prints that File's content, and a write command of content c, to a path *)
(* without blanks (do_write cuts its path at the first blank), that does   *)
(* not answer "no" has stored exactly c and reports its length.            *)
(***************************************************************************)
BlankFree(ps) == {p \in ps : \A i \in 1 .. Len(p) : p[i] # " "}

\* The write lines of the input whose path has no blank, each with its
\* path and its content.
WriteLines ==
    {[path |-> p, content |-> c,
      line |-> CommandLine(W_write, p \o <<" ">> \o Quoted(c))] :
        p \in BlankFree(Paths), c \in Contents}

C8_WriteReadRoundTrip ==
    Running =>
        /\ AtLoopHead =>
           \A d \in Dirs(heap) : \A k \in EngineKeys :
              LET r == fs_create(heap, d, k, File)
                  f == fs_find_in_dir(r.heap, d, k)
              IN  r.res = 0 =>
                    /\ fs_get_file_content(r.heap, f) = <<>>
                    /\ \A c1 \in Contents : \A c2 \in Contents :
                          LET w1 == fs_set_file_content(r.heap, f, c1)
                              w2 == fs_set_file_content(w1.heap, f, c2)
                          IN  /\ w1.res = 0
                              /\ fs_get_file_content(w1.heap, f) = c1
                              /\ w2.res = 0
                              /\ fs_get_file_content(w2.heap, f) = c2
        /\ AtLoopHead =>
           \A f \in Files(heap) : \A c \in Contents :
              LET w == fs_set_file_content(heap, f, c)
              IN  w.res = 0 /\ fs_get_file_content(w.heap, f) = c
        /\ (pc = "free" /\ Cmd = W_read /\ Target # NULL) =>
              IF IsDir(prev, Target) THEN out = RES_FAIL
              ELSE out = RES_READ(prev[Target].payload.content)
        /\ (pc = "free" /\ Cmd = W_write /\ out # RES_FAIL) =>
           \A w \in WriteLines :
              line = w.line =>
                  /\ Resolve(prev, w.path) \in Files(prev)
                  /\ heap[Resolve(prev, w.path)].payload.content = w.content
                  /\ out = RES_WRITE(Len(w.content))

\* "read /a" has just printed the content x, written to /a earlier.
C8_Witness ==
    /\ pc = "free"
    /\ line = CommandLine(W_read, PathOf(<<"a">>))
    /\ out = RES_READ(<<"x">>)
    /\ TopLevel(heap, "a") \in Files(heap)

(***************************************************************************)
(* C9.  Path fidelity.  In every reachable tree, for every node n but the  *)
(* root, resolving the string fs_get_path(n) from the root with enter_path *)
(* gives the cell n itself, and no two such nodes have the same path       *)
(* string.                                                                 *)
(***************************************************************************)
C9_PathFidelity ==
    Running =>
        /\ AtLoopHead =>
           \A n \in DOMAIN heap \ {root} :
              Resolve(heap, fs_get_path(heap, n)) = n
        /\ AtLoopHead =>
           \A n \in DOMAIN heap \ {root} : \A m \in DOMAIN heap \ {root} :
              n # m => fs_get_path(heap, n) # fs_get_path(heap, m)

\* "find b" has just printed the path of a node two levels below the root,
\* which created it under the name b.
C9_Witness ==
    /\ pc = "free"
    /\ line = CommandLine(W_find, <<"b">>)
    /\ out = RES_FIND(PathOf(<<"a", "b">>))
    /\ \E n \in DOMAIN heap :
          /\ heap[n].depth = 3
          /\ fs_get_path(heap, n) = PathOf(<<"a", "b">>)

(***************************************************************************)
(* C10.  Find correctness.  In every reachable tree, for every directory   *)
(* start, every name t and every iteration order, fs_find_r(start, t)      *)
(* lists each proper descendant of start named t exactly once and nothing  *)
(* else (so never start itself, and nothing when no descendant is named    *)
(* t), whatever its kind and whether or not its parent matched too.  A     *)
(* find command answers "no" exactly when no node is named by its token,   *)
(* and otherwise prints the paths of the matches, each once, ascending.    *)
(***************************************************************************)
Named(hp, start, t) == {m \in Descendants(hp, start) : hp[m].name = t}

SeqToSet(q) == {q[i] : i \in 1 .. Len(q)}

\* The name token of a find line.
FindName == strtok(AfterToken, NULL, DelimCmd).str

RECURSIVE Concat(_)
Concat(q) == IF q = <<>> THEN <<>> ELSE Head(q) \o Concat(Tail(q))

C10_FindCorrect ==
    Running =>
        /\ AtLoopHead =>
           \A start \in Dirs(heap) : \A t \in EngineKeys : \A ord \in Orders :
              LET res == fs_find_r(heap, start, t, <<>>, ord)
              IN  /\ SeqToSet(res) = Named(heap, start, t)
                  /\ Len(res) = Cardinality(Named(heap, start, t))
                  /\ start \notin SeqToSet(res)
        /\ (pc = "free" /\ Cmd = W_find) =>
              LET found == Named(prev, root, FindName)
              IN  /\ out = RES_FAIL <=> found = {}
                  /\ found # {} =>
                        \E f \in [1 .. Cardinality(found) -> found] :
                            /\ \A i \in DOMAIN f : \A j \in DOMAIN f :
                                  i < j => strcmp(fs_get_path(prev, f[i]),
                                                  fs_get_path(prev, f[j])) < 0
                            /\ out = Concat([i \in DOMAIN f |->
                                        RES_FIND(fs_get_path(prev, f[i]))])

\* "find a" has just printed /a and /a/a: a directory named a holding a
\* child named a yields both.
C10_Witness ==
    /\ pc = "free"
    /\ line = CommandLine(W_find, <<"a">>)
    /\ out = RES_FIND(PathOf(<<"a">>)) \o RES_FIND(PathOf(<<"a", "a">>))
    /\ Cardinality(Named(heap, root, <<"a">>)) = 2


(***************************************************************************)
(* Token sequences and the walk they describe, for the statements about    *)
(* path resolution.                                                        *)
(***************************************************************************)
\* The token sequences tried: up to MAX_DEPTH names.
TokenSeqs == UNION {[1 .. n -> Names] : n \in 0 .. MAX_DEPTH}

\* Path strings that hold no token.
SeparatorOnly == {<<>>, <<"/">>, <<"/", "/">>, <<" ">>}

\* The lines that give a command word a path of TokenSeqs, each with its
\* token sequence.
PathLines(word) ==
    {[ts |-> ts, line |-> CommandLine(word, PathOf(ts))] : ts \in TokenSeqs}

ReadLines == PathLines(W_read)

CreateLines == PathLines(W_create) \cup PathLines(W_create_dir)

\* A tokenizer state on a buffer that holds just the string s.
Buf(s) == [buf |-> s, save |-> NULL]

AllButLast(ts) == SubSeq(ts, 1, Len(ts) - 1)

LastOf(ts) == ts[Len(ts)]

\* The node reached from node by following the child names ts one by one,
\* or NULL when a name is no child of the node reached before it or that
\* node is no Directory.
RECURSIVE Walk(_, _, _)
Walk(hp, node, ts) ==
    IF ts = <<>> THEN node
    ELSE IF ~IsDir(hp, node) THEN NULL
    ELSE IF <<Head(ts)>> \notin DOMAIN hp[node].payload.dirhash THEN NULL
    ELSE Walk(hp, hp[node].payload.dirhash[<<Head(ts)>>], Tail(ts))

\* k >= 1, and every ti names a child of the node reached by t1..t(i-1),
\* which is a Directory.
Resolvable(hp, start, ts) ==
    /\ Len(ts) >= 1
    /\ \A i \in 1 .. Len(ts) :
          LET at == Walk(hp, start, SubSeq(ts, 1, i - 1))
          IN  /\ at # NULL
              /\ IsDir(hp, at)
              /\ <<ts[i]>> \in DOMAIN hp[at].payload.dirhash

\* All components but the last resolve as directories and the last is no
\* child of the final directory.
Capturable(hp, start, ts) ==
    /\ Len(ts) >= 1
    /\ LET d == Walk(hp, start, AllButLast(ts))
       IN  /\ d # NULL
           /\ IsDir(hp, d)
           /\ <<LastOf(ts)>> \notin DOMAIN hp[d].payload.dirhash

(***************************************************************************)
(* C11.  Path resolution without capture mode.  In every reachable tree,   *)
(* for every start directory and every token sequence t1..tk, enter_path   *)
(* on the string "/t1/../tk" returns a node if and only if k >= 1 and      *)
(* every ti names a child of the node reached by t1..t(i-1), that node     *)
(* being a Directory; the node returned is then the final child.  In every *)
(* other case (no token, a missing component, a File before the last       *)
(* token) it returns NULL, and it never hands back a name.  A read command *)
(* prints a content exactly when its path resolves that way to a File.     *)
(***************************************************************************)
C11_ResolveNoCapture ==
    Running =>
        /\ AtLoopHead =>
           \A start \in Dirs(heap) : \A ts \in TokenSeqs :
              LET got == enter_path(heap, start, Buf(PathOf(ts)), 1, FALSE)
              IN  /\ got.new_name = NULLSTR
                  /\ got.node # NULL <=> Resolvable(heap, start, ts)
                  /\ got.node # NULL => got.node = Walk(heap, start, ts)
        /\ AtLoopHead =>
           \A start \in Dirs(heap) : \A p \in SeparatorOnly :
              enter_path(heap, start, Buf(p), 1, FALSE).node = NULL
        /\ (pc = "free" /\ Cmd = W_read) =>
           \A e \in ReadLines :
              line = e.line =>
                  (out # RES_FAIL <=>
                      /\ Resolvable(prev, root, e.ts)
                      /\ Walk(prev, root, e.ts) \in Files(prev))

\* "read /a/b" has just answered "no": /a is a File, and a File before the
\* last token ends the resolution.
C11_Witness ==
    /\ pc = "free"
    /\ line = CommandLine(W_read, PathOf(<<"a", "b">>))
    /\ out = RES_FAIL
    /\ TopLevel(prev, "a") \in Files(prev)

(***************************************************************************)
(* C12.  Path resolution in capture mode.  In every reachable tree, for    *)
(* every start directory and token sequence, enter_path with a new_name    *)
(* hands back a name exactly when all components but the last resolve as   *)
(* directories and the last is no child of the final directory; it then    *)
(* returns that final directory and exactly the last component.  When an   *)
(* earlier component is missing, a File is on the path or the whole path   *)
(* exists, no name is captured, and a create or create_dir command of such *)
(* a path answers "no" and leaves the heap as it was.  A captured name     *)
(* always comes with a Directory, so fs_create never gets a File as the    *)
(* parent; a create that answers "ok" has put the new node under that      *)
(* directory.                                                              *)
(***************************************************************************)
C12_ResolveCapture ==
    Running =>
        /\ AtLoopHead =>
           \A start \in Dirs(heap) : \A ts \in TokenSeqs :
              LET got == enter_path(heap, start, Buf(PathOf(ts)), 1, TRUE)
              IN  /\ got.new_name # NULLSTR <=> Capturable(heap, start, ts)
                  /\ got.new_name # NULLSTR =>
                        /\ got.node = Walk(heap, start, AllButLast(ts))
                        /\ got.node \in Dirs(heap)
                        /\ got.new_name = <<LastOf(ts)>>
        /\ AtLoopHead =>
           \A start \in Dirs(heap) : \A p \in SeparatorOnly :
              enter_path(heap, start, Buf(p), 1, TRUE).new_name = NULLSTR
        /\ (pc = "free" /\ Cmd \in {W_create, W_create_dir}) =>
           \A e \in CreateLines :
              line = e.line =>
                  /\ ~Capturable(prev, root, e.ts) =>
                        out = RES_FAIL /\ heap = prev
                  /\ out = RES_OK =>
                        LET n == Walk(heap, root, e.ts)
                        IN  /\ n \in DOMAIN heap \ DOMAIN prev
                            /\ heap[n].parent = Walk(prev, root, AllButLast(e.ts))
                            /\ heap[n].parent \in Dirs(prev)

\* "create /a/b" has just answered "no": /a is a File, no name was
\* captured and nothing was created.
C12_Witness ==
    /\ pc = "free"
    /\ line = CommandLine(W_create, PathOf(<<"a", "b">>))
    /\ out = RES_FAIL
    /\ TopLevel(prev, "a") \in Files(prev)
    /\ heap = prev

(***************************************************************************)
(* C13.  getPath handles the root.  For every node of every reachable      *)
(* tree, the root included, fs_get_path's walk up the parent links never   *)
(* reads the parent link of an absent (null) node, and for the root it     *)
(* returns the root path "/".  (The code climbs from the root to its null  *)
(* parent and then tests that null node's parent link.)                    *)
(***************************************************************************)
C13_GetPathRoot ==
    Running =>
        /\ \A n \in DOMAIN heap : ~fs_get_path_reads_null(heap, n)
        /\ fs_get_path(heap, root) = <<"/">>

(***************************************************************************)
(* C14.  Kind checking.  In every reachable tree every node is a Directory *)
(* holding a dirhash and no content, or a File holding a content and no    *)
(* dirhash; fs_get_file_content and fs_set_file_content on a Directory     *)
(* fail (NULL, -1) and return the tree unchanged; on a File the write      *)
(* succeeds for every content and the read returns the stored content.  A  *)
(* node that is there before and after a command has kept its kind.  A     *)
(* read or write command whose path names a Directory answers "no" and     *)
(* leaves the heap as it was.                                              *)
(***************************************************************************)
C14_KindChecking ==
    Running =>
        /\ \A n \in DOMAIN heap :
              /\ heap[n].type \in {Dir, File}
              /\ DOMAIN heap[n].payload =
                    IF heap[n].type = Dir THEN {"dirhash"} ELSE {"content"}
        /\ AtLoopHead =>
           \A d \in Dirs(heap) : \A c \in Contents :
              LET w == fs_set_file_content(heap, d, c)
              IN  /\ w.res # 0
                  /\ w.heap = heap
                  /\ fs_get_file_content(heap, d) = NULLSTR
        /\ AtLoopHead =>
           \A f \in Files(heap) : \A c \in Contents :
              /\ fs_set_file_content(heap, f, c).res = 0
              /\ fs_get_file_content(heap, f) # NULLSTR
              /\ fs_get_file_content(heap, f) = heap[f].payload.content
        /\ pc = "free" =>
              \A n \in DOMAIN heap \cap DOMAIN prev :
                  heap[n].type = prev[n].type
        /\ (pc = "free" /\ Cmd = W_read /\ Target # NULL) =>
              (IsDir(prev, Target) => out = RES_FAIL /\ heap = prev)
        /\ (pc = "free" /\ Cmd = W_write) =>
           \A w \in WriteLines :
              (line = w.line /\ Resolve(prev, w.path) \in Dirs(prev)) =>
                  out = RES_FAIL /\ heap = prev

\* "write /a "x"" has just answered "no": /a is a Directory, which is
\* still a Directory with its dirhash.
C14_Witness ==
    /\ pc = "free"
    /\ line = CommandLine(W_write, PathOf(<<"a">>) \o <<" ">> \o Quoted(<<"x">>))
    /\ out = RES_FAIL
    /\ TopLevel(prev, "a") \in Dirs(prev)
    /\ heap = prev

(***************************************************************************)
(* C15.  Scenario trace.  From the empty root, the input                   *)
(*   create_dir /a; create /a/f; write /a/f "hello"; read /a/f;            *)
(*   delete /a; delete_r /a; read /a/f                                     *)
(* is answered, line by line, with "ok", "ok", "ok 5", "contenuto hello",  *)
(* "no" (/a is a Directory with a child, and stays), "ok", "no" (the path  *)
(* names no node); after the last command the root has no children.        *)
(***************************************************************************)
ScenarioOut ==
    <<RES_OK,
      RES_OK,
      <<"o", "k", " ", "5", "\n">>,
      <<"c", "o", "n", "t", "e", "n", "u", "t", "o", " ",
        "h", "e", "l", "l", "o", "\n">>,
      RES_FAIL,
      RES_OK,
      RES_FAIL>>

C15_Scenario ==
    (pc = "free" /\ step \in 1 .. Len(Scenario)) =>
        /\ line = Scenario[step]
        /\ out = ScenarioOut[step]
        /\ step = 5 =>
              /\ Target # NULL
              /\ IsDir(prev, Target)
              /\ Children(prev, Target) # {}
              /\ heap = prev
        /\ step = 7 =>
              /\ Target = NULL
              /\ Children(heap, root) = {}
              /\ DOMAIN heap = {root}

\* The last command of the scenario has just been answered.
C15_Witness ==
    /\ pc = "free"
    /\ step = Len(Scenario)
    /\ out = RES_FAIL
    /\ Children(heap, root) = {}

(***************************************************************************)
(* C16.  deleteRecursive terminates and never fails.  In every reachable   *)
(* tree, for every directory d and every iteration order: the cursor       *)
(* restarted at 0 yields a child of d exactly while d has one; the         *)
(* recursive call on that child removes exactly that child's name from     *)
(* d's index, so d has one child less; the loop on d ends with d still     *)
(* allocated and empty; and fs_free_dir on the emptied directory succeeds. *)
(* fs_delete_r of any node but the root leaves the node unallocated, and a *)
(* delete_r command whose path names a node always answers "ok".           *)
(***************************************************************************)
C16_DeleteRecursiveTerminates ==
    Running =>
        /\ AtLoopHead =>
           \A d \in Dirs(heap) : \A ord \in Orders :
              LET child == hashtable_iterate(heap[d].payload.dirhash, 0, ord).value
              IN  /\ child = NULL <=> Children(heap, d) = {}
                  /\ child # NULL =>
                        LET hp1 == fs_delete_r(heap, child, ord)
                        IN  /\ child \in Children(heap, d)
                            /\ d \in DOMAIN hp1
                            /\ DOMAIN hp1[d].payload.dirhash =
                                  DOMAIN heap[d].payload.dirhash \ {heap[child].name}
                            /\ Children(hp1, d) = Children(heap, d) \ {child}
                            /\ Cardinality(Children(hp1, d)) =
                                  Cardinality(Children(heap, d)) - 1
        /\ AtLoopHead =>
           \A d \in Dirs(heap) : \A ord \in Orders :
              LET hp2 == fs_delete_r_loop(heap, d, ord)
              IN  /\ d \in DOMAIN hp2
                  /\ Children(hp2, d) = {}
                  /\ d # root => fs_free_dir(hp2, d).res = 0
        /\ AtLoopHead =>
           \A n \in DOMAIN heap \ {root} : \A ord \in Orders :
              n \notin DOMAIN fs_delete_r(heap, n, ord)
        /\ (pc = "free" /\ Cmd = W_delete_r /\ Target # NULL) =>
              out = RES_OK /\ Target \notin DOMAIN heap

\* "delete_r /a" has just removed the directory /a, which held a directory
\* /a/a: the recursion went two levels down.
C16_Witness ==
    /\ pc = "free"
    /\ line = CommandLine(W_delete_r, PathOf(<<"a">>))
    /\ out = RES_OK
    /\ Resolve(prev, PathOf(<<"a", "a">>)) \in Dirs(prev)
    /\ DOMAIN heap = {root}

(***************************************************************************)
(* Destruction ordering.  Every destruction, by delete or by               *)
(* deleteRecursive, of a File or of a Directory, is a call of fs_free_file *)
(* or of fs_free_dir on a leaf of a reachable tree.                        *)
(***************************************************************************)
\* The parent's index holds the entry of node n in memory state m of a
\* destruction that started in heap hp.
EntryHeld(hp, m, n) ==
    hp[n].name \in DOMAIN m.heap[hp[n].parent].payload.dirhash

\* The pieces of n's own storage released in memory state m.
ReleasedOf(m, n) == {part \in {"content", "dirhash", "name", "node"} :
                        <<n, part>> \in m.freed}

(***************************************************************************)
(* C17 as stated.  In every destruction of a node the removal of its entry *)
(* from the parent's index comes before any of the node's own storage      *)
(* (content, own index, name, node record) is released: in no memory state *)
(* of a destruction does the parent's index hold the entry of a node of    *)
(* which a piece is released.                                              *)
(***************************************************************************)
C17_DestructionOrdering ==
    Running =>
        \A n \in DOMAIN heap \ {root} :
            LET ms == fs_delete_steps(heap, n)
            IN  \A i \in DOMAIN ms :
                    ReleasedOf(ms[i], n) # {} => ~EntryHeld(heap, ms[i], n)

(***************************************************************************)
(* C17 amended.  In every destruction of a node the removal of its entry   *)
(* from the parent's index comes before the node's name and the node       *)
(* record are released, and after the file content or the directory's own  *)
(* index is released: the parent's index never holds an entry whose name   *)
(* or node record is released, and the only storage ever released while    *)
(* the entry is held is the content or the own index.  The destruction     *)
(* ends in the heap fs_delete returns, with all of the node's storage      *)
(* released, and a delete command that answers "ok" has gone through it.   *)
(***************************************************************************)
C17_DestructionOrderingAmended ==
    Running =>
        /\ AtLoopHead =>
           \A n \in DOMAIN heap \ {root} :
              LET ms == fs_delete_steps(heap, n)
                  own == IF IsDir(heap, n) THEN "dirhash" ELSE "content"
              IN  /\ \A i \in DOMAIN ms :
                        /\ EntryHeld(heap, ms[i], n) =>
                              ReleasedOf(ms[i], n) \subseteq {own}
                        /\ ~EntryHeld(heap, ms[i], n) =>
                              own \in ReleasedOf(ms[i], n)
                  /\ ms[Len(ms)].heap = fs_delete(heap, n).heap
                  /\ Leaf(heap, n) =>
                        /\ \E i \in DOMAIN ms :
                              /\ EntryHeld(heap, ms[i], n)
                              /\ ReleasedOf(ms[i], n) = {own}
                        /\ ReleasedOf(ms[Len(ms)], n) = {own, "name", "node"}
                        /\ n \notin DOMAIN ms[Len(ms)].heap
                  /\ ~Leaf(heap, n) => ms = <<[heap |-> heap, freed |-> {}]>>
        /\ (pc = "free" /\ Cmd = W_delete /\ Target # NULL) =>
              LET ms == fs_delete_steps(prev, Target)
              IN  heap = ms[Len(ms)].heap

\* "delete /a" has just destroyed the File /a, which held the content x:
\* the heap is the last memory state of fs_free_file's statements.
C17_Witness ==
    /\ pc = "free"
    /\ line = CommandLine(W_delete, PathOf(<<"a">>))
    /\ out = RES_OK
    /\ TopLevel(prev, "a") \in Files(prev)
    /\ prev[TopLevel(prev, "a")].payload.content = <<"x">>
    /\ LET ms == fs_free_file_steps(prev, TopLevel(prev, "a"))
       IN  heap = ms[Len(ms)].heap

(***************************************************************************)
(* C18.  Root permanence.  While the command loop runs, after any sequence *)
(* of commands: the cell root is allocated and is the Directory with the   *)
(* empty name, depth 1 and no parent that fs_new_root made, and it is the  *)
(* only node without a parent; no path string resolves to the root (one    *)
(* without a token resolves to nothing); the node a delete or delete_r     *)
(* command names is never the root and has a parent that is allocated, so  *)
(* fs_free_file and fs_free_dir are only called on nodes whose parent is   *)
(* there; and a command leaves the root's own fields as they were.         *)
(***************************************************************************)
C18_RootPermanence ==
    Running =>
        /\ root \in DOMAIN heap
        /\ heap[root].name = <<>>
        /\ heap[root].depth = 1
        /\ heap[root].parent = NULL
        /\ heap[root].type = Dir
        /\ \A n \in DOMAIN heap \ {root} : heap[n].parent \in DOMAIN heap
        /\ AtLoopHead =>
           \A start \in Dirs(heap) :
              \A p \in {PathOf(ts) : ts \in TokenSeqs} \cup SeparatorOnly :
                 \A capture \in BOOLEAN :
                    LET got == enter_path(heap, start, Buf(p), 1, capture)
                    IN  /\ got.new_name = NULLSTR => got.node # root
                        /\ p \in SeparatorOnly => got.node = NULL
        /\ (pc = "free" /\ Cmd \in {W_delete, W_delete_r}) =>
              /\ Target # root
              /\ Target # NULL =>
                    /\ prev[Target].parent # NULL
                    /\ prev[Target].parent \in DOMAIN prev
        /\ pc = "free" =>
              /\ root \in DOMAIN prev
              /\ heap[root].name = prev[root].name
              /\ heap[root].depth = prev[root].depth
              /\ heap[root].parent = prev[root].parent
              /\ heap[root].type = prev[root].type

\* "delete_r /" has just answered "no": its path has no token, the root
\* and the child it had are still there.
C18_Witness ==
    /\ pc = "free"
    /\ line = CommandLine(W_delete_r, <<"/">>)
    /\ out = RES_FAIL
    /\ Children(prev, root) # {}
    /\ heap = prev

(***************************************************************************)
(* C19.  Frame.  In every reachable tree: a successful fs_create(d, k, t)  *)
(* allocates one new node, adds the entry k for it to d's index, and       *)
(* leaves every other node, and d's name, kind, depth and parent, as they  *)
(* were; a successful fs_set_file_content(f, c) changes f's content and    *)
(* nothing else; a successful fs_delete(n) frees n alone, fs_delete_r(n)   *)
(* frees n and its descendants alone, and both change nothing but the      *)
(* index of n's parent, which loses n's entry only.  After any command a   *)
(* node that was there before and differs now is the parent of the node a  *)
(* create made, the File a write wrote (only its content differs), or the  *)
(* parent of the node a delete or delete_r named; read, find (with the     *)
(* fs_get_path and enter_path calls they make) and lines that are no       *)
(* command leave the heap as it was.                                       *)
(***************************************************************************)
\* Every node of S is in after, with the record it has in before.
Untouched(before, after, S) ==
    \A n \in S : n \in DOMAIN after /\ after[n] = before[n]

\* Node p is in after with the name, kind, depth and parent it has in
\* before.
SameButIndex(before, after, p) ==
    /\ p \in DOMAIN after
    /\ after[p].name = before[p].name
    /\ after[p].type = before[p].type
    /\ after[p].depth = before[p].depth
    /\ after[p].parent = before[p].parent

\* after is before without the cells of gone, whose root n lost its entry
\* in its parent's index and nothing else changed.
RemovedOnly(before, after, n, gone) ==
    LET p == before[n].parent
    IN  /\ DOMAIN after = DOMAIN before \ gone
        /\ Untouched(before, after, DOMAIN before \ (gone \cup {p}))
        /\ SameButIndex(before, after, p)
        /\ after[p].payload.dirhash =
              hashtable_remove(before[p].payload.dirhash, before[n].name)

C19_Frame ==
    Running =>
        /\ AtLoopHead =>
           \A d \in Dirs(heap) : \A k \in EngineKeys : \A t \in {File, Dir} :
              LET r == fs_create(heap, d, k, t)
              IN  r.res = 0 =>
                    /\ SameButIndex(heap, r.heap, d)
                    /\ Cardinality(DOMAIN r.heap \ DOMAIN heap) = 1
                    /\ DOMAIN heap \subseteq DOMAIN r.heap
                    /\ Untouched(heap, r.heap, DOMAIN heap \ {d})
                    /\ \E new \in DOMAIN r.heap \ DOMAIN heap :
                          /\ r.heap[d].payload.dirhash =
                                hashtable_set(heap[d].payload.dirhash, k, new)
                          /\ Children(r.heap, d) = Children(heap, d) \cup {new}
        /\ AtLoopHead =>
           \A f \in Files(heap) : \A c \in Contents :
              LET w == fs_set_file_content(heap, f, c)
              IN  w.res = 0 =>
                    /\ DOMAIN w.heap = DOMAIN heap
                    /\ Untouched(heap, w.heap, DOMAIN heap \ {f})
                    /\ SameButIndex(heap, w.heap, f)
                    /\ w.heap[f].payload = [content |-> c]
        /\ AtLoopHead =>
           \A n \in DOMAIN heap \ {root} :
              LET r == fs_delete(heap, n)
              IN  r.res = 0 => RemovedOnly(heap, r.heap, n, {n})
        /\ AtLoopHead =>
           \A n \in DOMAIN heap \ {root} : \A ord \in Orders :
              RemovedOnly(heap, fs_delete_r(heap, n, ord), n,
                          {n} \cup Descendants(heap, n))
        /\ pc = "free" =>
              /\ \A n \in DOMAIN heap \cap DOMAIN prev :
                    heap[n] # prev[n] =>
                       \/ /\ Cmd \in {W_create, W_create_dir}
                          /\ out = RES_OK
                          /\ SameButIndex(prev, heap, n)
                          /\ \E new \in DOMAIN heap \ DOMAIN prev :
                                heap[new].parent = n
                       \/ /\ Cmd = W_write
                          /\ out # RES_FAIL
                          /\ n \in Files(prev)
                          /\ SameButIndex(prev, heap, n)
                       \/ /\ Cmd \in {W_delete, W_delete_r}
                          /\ out = RES_OK
                          /\ Target # NULL
                          /\ n = prev[Target].parent
                          /\ SameButIndex(prev, heap, n)
              /\ Cardinality({n \in DOMAIN heap \cap DOMAIN prev :
                                 heap[n] # prev[n]}) <= 1
              /\ Cmd \notin {W_create, W_create_dir, W_write,
                             W_delete, W_delete_r} => heap = prev

\* "create /b" has just added a node to the root while the File /a, which
\* holds the content x, is as it was.
C19_Witness ==
    /\ pc = "free"
    /\ line = CommandLine(W_create, PathOf(<<"b">>))
    /\ out = RES_OK
    /\ TopLevel(prev, "a") \in Files(prev)
    /\ prev[TopLevel(prev, "a")].payload.content = <<"x">>
    /\ heap[TopLevel(prev, "a")] = prev[TopLevel(prev, "a")]
    /\ TopLevel(heap, "b") \in DOMAIN heap \ DOMAIN prev

(***************************************************************************)
(* C20.  Create/delete inverse.  In every reachable tree T: a successful   *)
(* fs_create(d, k, t) followed by fs_delete (or fs_delete_r) of the node   *)
(* it made succeeds and gives back exactly T; and after any node n, named  *)
(* x under parent p, is deleted by fs_delete_r, or by fs_delete when that  *)
(* succeeds, fs_create(p, x, t) succeeds for either kind and the node it   *)
(* makes is new: named x under p, one level below p, with the empty        *)
(* content or no children, whatever n held.  The same through the command  *)
(* layer: after a create or create_dir that answered "ok", delete of the   *)
(* same path answers "ok" and gives back the heap the create started from; *)
(* after a delete or delete_r that answered "ok", create and create_dir of *)
(* the same path answer "ok" and make such a new node.                     *)
(***************************************************************************)
\* Node new of heap hp is a just-made node of kind t named x under p.
FreshNode(hp, new, p, x, t) ==
    /\ new \in DOMAIN hp
    /\ hp[new].name = x
    /\ hp[new].parent = p
    /\ hp[new].depth = hp[p].depth + 1
    /\ hp[new].type = t
    /\ hp[new].payload = IF t = Dir THEN [dirhash |-> hashtable_create]
                                    ELSE [content |-> <<>>]
    /\ Children(hp, new) = {}
    /\ Descendants(hp, new) = {}

\* fs_create(p, x, t) on heap hp succeeds and makes a fresh node, the only
\* cell added.
CreatesAfresh(hp, p, x, t) ==
    LET c == fs_create(hp, p, x, t)
    IN  /\ c.res = 0
        /\ FreshNode(c.heap, fs_find_in_dir(c.heap, p, x), p, x, t)
        /\ DOMAIN c.heap = DOMAIN hp \cup {fs_find_in_dir(c.heap, p, x)}
        /\ fs_find_in_dir(c.heap, p, x) \notin DOMAIN hp

C20_CreateDeleteInverse ==
    Running =>
        /\ AtLoopHead =>
           \A d \in Dirs(heap) : \A k \in EngineKeys : \A t \in {File, Dir} :
              LET r == fs_create(heap, d, k, t)
                  new == fs_find_in_dir(r.heap, d, k)
              IN  r.res = 0 =>
                    /\ fs_delete(r.heap, new).res = 0
                    /\ fs_delete(r.heap, new).heap = heap
                    /\ \A ord \in Orders : fs_delete_r(r.heap, new, ord) = heap
        /\ AtLoopHead =>
           \A n \in DOMAIN heap \ {root} : \A t \in {File, Dir} :
              /\ \A ord \in Orders :
                    CreatesAfresh(fs_delete_r(heap, n, ord),
                                  heap[n].parent, heap[n].name, t)
              /\ fs_delete(heap, n).res = 0 =>
                    CreatesAfresh(fs_delete(heap, n).heap,
                                  heap[n].parent, heap[n].name, t)
        /\ (pc = "free" /\ Cmd \in {W_create, W_create_dir} /\ out = RES_OK) =>
              \A ord \in Orders :
                 do_delete(heap, AfterToken, FALSE, ord) =
                    [heap |-> prev, out |-> RES_OK]
        /\ (/\ pc = "free"
            /\ Cmd \in {W_delete, W_delete_r}
            /\ out = RES_OK) =>
              \A t \in {File, Dir} :
                 LET c == do_create(heap, AfterToken, t)
                     new == enter_path(c.heap, root, AfterToken, NULL, FALSE).node
                 IN  /\ c.out = RES_OK
                     /\ new # NULL
                     /\ FreshNode(c.heap, new, prev[Target].parent,
                                  prev[Target].name, t)

\* "delete_r /a" has just removed the directory /a and its child; a create
\* of /a now makes a File with the empty content.
C20_Witness ==
    /\ pc = "free"
    /\ line = CommandLine(W_delete_r, PathOf(<<"a">>))
    /\ out = RES_OK
    /\ TopLevel(prev, "a") \in Dirs(prev)
    /\ Children(prev, TopLevel(prev, "a")) # {}
    /\ LET c == do_create(heap, AfterToken, File)
       IN  /\ c.out = RES_OK
           /\ c.heap[TopLevel(c.heap, "a")].payload = [content |-> <<>>]

=============================================================================
